---- MODULE Spec2Model ----
(***************************************************************************)
(* A model of the zileyee/tetris rule engine: the State record that the    *)
(* driver's scan (src/src/main.ts:234-239) folds Actions over, and the     *)
(* four Actions of src/src/state.ts (Move, Rotate, Restart, Drop) with the *)
(* helpers of src/src/util.ts (RNG, shapes, rotateMatrix).                 *)
(*                                                                         *)
(* Arrays are 0-indexed in the source and 1-indexed sequences here, so an  *)
(* access a[i] of the source reads a[i + 1] below.  The empty grid cell    *)
(* (null in the source) is the string "null".                              *)
(***************************************************************************)
EXTENDS Integers, Sequences, FiniteSets, TLC

VARIABLES
    initial_RNG,  \* state.ts:64, the module-level RNG seeded from the clock
    state,        \* the State accumulated by scan(tick, initialState)
    prev,         \* history: the State the last Action was applied to
    action,       \* history: the last Action applied ("init" before any)
    steps,        \* history: number of Actions applied since Init
    tickRate,     \* main.ts:85, the rate distinctUntilChanged let through last
    timers        \* main.ts:88, the rates of the interval timers that run

vars == <<initial_RNG, state, prev, action, steps, tickRate, timers>>

-----------------------------------------------------------------------------
(* Constants of src/src/types.ts                                           *)

GRID_WIDTH == 10
GRID_HEIGHT == 20
STARTING_BLOCK_X == (10 \div 2) - 2
STARTING_LEVEL == 1
TICK_RATE_MS == 500
MIN_TICK_RATE_MS == 100
TICK_RATE_DECREMENT_MS == 100

null == "null"

-----------------------------------------------------------------------------
(* RNG, src/src/util.ts:7-45.  JavaScript numbers are IEEE-754 doubles:    *)
(* RNG.a * seed exceeds 2^53 for most seeds, so the product and the sum    *)
(* are each rounded to 53 significant bits (ties to even) before the       *)
(* remainder is taken.  A value v is carried as the pair <<hi, lo>> with   *)
(* v = hi * 2^31 + lo, 0 <= lo < 2^31, so that no intermediate result      *)
(* leaves the 32-bit integers of the model checker.                        *)

RNG_a == 1103515245
RNG_c == 12345
MaxSeed == 2147483647      \* RNG.m - 1, with RNG.m = 0x80000000

Pow2(k) == 2 ^ k

\* number of bits of n (0 for n = 0)
RECURSIVE BitLen(_)
BitLen(n) == IF n = 0 THEN 0 ELSE 1 + BitLen(n \div 2)

\* the exact product x * y of two integers in [0, 2^31), as <<hi, lo>>
MulWide(x, y) ==
    LET xh == x \div 65536
        xl == x % 65536
        yh == y \div 65536
        yl == y % 65536
        \* xl * yl can exceed 2^31 - 1: it is formed from the two bytes of xl
        q    == (xl \div 256) * yl
        low  == (xl % 256) * yl + (q % 256) * 256
        d0   == low % 65536
        c0   == (low \div 65536) + (q \div 256)
        mid1 == xh * yl
        mid2 == xl * yh
        t1   == (mid1 % 65536) + (mid2 % 65536) + c0
        d1   == t1 % 65536
        c1   == (t1 \div 65536) + (mid1 \div 65536) + (mid2 \div 65536)
        t2   == xh * yh + c1
        d2   == t2 % 65536
        d3   == t2 \div 65536
    IN  << d3 * 131072 + d2 * 2 + (d1 \div 32768),
           (d1 % 32768) * 65536 + d0 >>

\* v + n for 0 <= n < 2^31, without forming a sum above 2^31 - 1
AddWide(v, n) ==
    IF v[2] <= MaxSeed - n
    THEN << v[1], v[2] + n >>
    ELSE << v[1] + 1, v[2] - (MaxSeed - n) - 1 >>

\* v rounded to the nearest double (53 significant bits, ties to even)
RoundDouble(v) ==
    LET drop == BitLen(v[1]) - 22     \* bits below the 53 kept ones
    IN  IF drop <= 0 THEN v
        ELSE LET unit == Pow2(drop)
                 rem  == v[2] % unit
                 down == v[2] - rem
                 odd  == (v[2] \div unit) % 2 = 1
                 up   == rem * 2 > unit \/ (rem * 2 = unit /\ odd)
             IN  IF ~up THEN << v[1], down >>
                 ELSE AddWide(<< v[1], down >>, unit)

\* static hash(seed), util.ts:25-27: (RNG.a * seed + RNG.c) % RNG.m
hash(seed) ==
    RoundDouble(AddWide(RoundDouble(MulWide(RNG_a, seed)), RNG_c))[2]

\* static scale(hash), util.ts:30-32: Math.floor((7 * hash) / (RNG.m - 1)).
\* RNG.m - 1 = 7 * 306783378 + 1, so the quotient is (h - 1) \div 306783378
\* for h >= 1 (7 * h itself does not fit the model checker's integers).
scale(h) == IF h = 0 THEN 0 ELSE (h - 1) \div 306783378

\* next(), util.ts:37-40
next(rng) == [seed |-> hash(rng.seed)]

\* currentValue(), util.ts:42-44
currentValue(rng) == scale(rng.seed)

-----------------------------------------------------------------------------
(* The piece catalog, src/src/util.ts:48-113                               *)

shapes == <<
    [shape |-> << <<1, 1, 1, 1>>, <<0, 0, 0, 0>>, <<0, 0, 0, 0>>, <<0, 0, 0, 0>> >>,
     color |-> "cyan"],
    [shape |-> << <<1, 1>>, <<1, 1>> >>, color |-> "yellow"],
    [shape |-> << <<0, 1, 0>>, <<1, 1, 1>>, <<0, 0, 0>> >>, color |-> "purple"],
    [shape |-> << <<1, 0, 0>>, <<1, 1, 1>>, <<0, 0, 0>> >>, color |-> "orange"],
    [shape |-> << <<0, 0, 1>>, <<1, 1, 1>>, <<0, 0, 0>> >>, color |-> "blue"],
    [shape |-> << <<0, 1, 1>>, <<1, 1, 0>>, <<0, 0, 0>> >>, color |-> "red"],
    [shape |-> << <<1, 1, 0>>, <<0, 1, 1>>, <<0, 0, 0>> >>, color |-> "green"] >>

\* randomBlock(rng), util.ts:109-113: the pair [block, newRNG]
randomBlock(rng) == << shapes[currentValue(rng) + 1], next(rng) >>

\* a rotation the other way round (counter-clockwise)
rotateMatrix_counterClockwise(matrix) ==
    LET N == Len(matrix) - 1
    IN  [i \in 1..Len(matrix) |->
            [j \in 1..Len(matrix[i]) |-> matrix[j][(N - (i - 1)) + 1]]]

\* a rotation that reads the column index where the row index belongs
rotateMatrix_columnForRow(matrix) ==
    LET N == Len(matrix) - 1
    IN  [i \in 1..Len(matrix) |->
            [j \in 1..Len(matrix[i]) |-> matrix[(N - (j - 1)) + 1][j]]]

\* defaultRotationStrategy / rotateMatrix, util.ts:119-131
rotateMatrix(matrix) ==
    LET N == Len(matrix) - 1
    IN  [i \in 1..Len(matrix) |->
            [j \in 1..Len(matrix[i]) |-> matrix[(N - (j - 1)) + 1][i]]]

-----------------------------------------------------------------------------
(* Grid operations, src/src/state.ts:18-160                                *)

\* a collision test that looks at the walls and the floor only
isCollision_wallsOnly(grid, block, x, y) ==
    \E rowIdx \in 0..(Len(block.shape) - 1) :
        \E cellIdx \in 0..(Len(block.shape[rowIdx + 1]) - 1) :
            /\ block.shape[rowIdx + 1][cellIdx + 1] # 0
            /\ LET gridX == x + cellIdx
                   gridY == y + rowIdx
               IN  \/ gridX < 0
                   \/ gridX >= GRID_WIDTH
                   \/ gridY < 0
                   \/ gridY >= GRID_HEIGHT

\* a collision test whose floor lies twice the grid height down
isCollision_deepFloor(grid, block, x, y) ==
    \E rowIdx \in 0..(Len(block.shape) - 1) :
        \E cellIdx \in 0..(Len(block.shape[rowIdx + 1]) - 1) :
            /\ block.shape[rowIdx + 1][cellIdx + 1] # 0
            /\ LET gridX == x + cellIdx
                   gridY == y + rowIdx
               IN  \/ gridX < 0
                   \/ gridX >= GRID_WIDTH
                   \/ gridY < 0
                   \/ gridY >= GRID_HEIGHT + GRID_HEIGHT
                   \/ (gridY < GRID_HEIGHT /\ grid[gridY + 1][gridX + 1] # null)

\* a collision test that has no left wall
isCollision_noLeftWall(grid, block, x, y) ==
    \E rowIdx \in 0..(Len(block.shape) - 1) :
        \E cellIdx \in 0..(Len(block.shape[rowIdx + 1]) - 1) :
            /\ block.shape[rowIdx + 1][cellIdx + 1] # 0
            /\ LET gridX == x + cellIdx
                   gridY == y + rowIdx
               IN  \/ gridX >= GRID_WIDTH
                   \/ gridY < 0
                   \/ gridY >= GRID_HEIGHT
                   \/ (gridX >= 0 /\ grid[gridY + 1][gridX + 1] # null)

\* isCollision, state.ts:18-32
isCollision(grid, block, x, y) ==
    \E rowIdx \in 0..(Len(block.shape) - 1) :
        \E cellIdx \in 0..(Len(block.shape[rowIdx + 1]) - 1) :
            /\ block.shape[rowIdx + 1][cellIdx + 1] # 0
            /\ LET gridX == x + cellIdx
                   gridY == y + rowIdx
               IN  \/ gridX < 0
                   \/ gridX >= GRID_WIDTH
                   \/ gridY < 0
                   \/ gridY >= GRID_HEIGHT
                   \/ grid[gridY + 1][gridX + 1] # null

\* a burn that paints the whole shape matrix, its empty cells included
updateRow_wholeMatrix(block, x, y, rowIdx, cell, cellIdx) ==
    IF /\ rowIdx - y >= 0
       /\ rowIdx - y < Len(block.shape)
       /\ cellIdx - x >= 0
       /\ cellIdx - x < Len(block.shape[(rowIdx - y) + 1])
    THEN block.color
    ELSE cell

\* updateRow, state.ts:45-48: block.shape[rowIdx - y]?.[cellIdx - x]
updateRow(block, x, y, rowIdx, cell, cellIdx) ==
    IF /\ rowIdx - y >= 0
       /\ rowIdx - y < Len(block.shape)
       /\ cellIdx - x >= 0
       /\ cellIdx - x < Len(block.shape[(rowIdx - y) + 1])
       /\ block.shape[(rowIdx - y) + 1][(cellIdx - x) + 1] # 0
    THEN block.color
    ELSE cell

\* updateGrid, state.ts:57-58
updateGrid(grid, block, x, y) ==
    [rowIdx \in 1..Len(grid) |->
        [cellIdx \in 1..Len(grid[rowIdx]) |->
            updateRow(block, x, y, rowIdx - 1, grid[rowIdx][cellIdx], cellIdx - 1)]]

\* Array(Constants.GRID_WIDTH).fill(null), state.ts:79 and :140
emptyRow == [c \in 1..GRID_WIDTH |-> null]

\* moveBlock, state.ts:96-104
moveBlock(s, direction, magnitude) ==
    [newBlockX |-> s.blockX + (IF direction = "x" THEN magnitude ELSE 0),
     newBlockY |-> s.blockY + (IF direction = "y" THEN magnitude ELSE 0)]

\* a game-end test that never finds the top row occupied
isGameEnd_never(grid) == FALSE

\* isGameEnd, state.ts:112-114
isGameEnd(grid) == \E c \in 1..Len(grid[1]) : grid[1][c] # null

\* linesCleared, state.ts:122-127: the indices (0-based, ascending) of full rows
linesCleared(grid) ==
    SelectSeq([i \in 1..Len(grid) |-> i - 1],
              LAMBDA index : \A c \in 1..Len(grid[index + 1]) :
                                 grid[index + 1][c] # null)

\* newGrid.splice(y, 1); newGrid.unshift(emptyRow), state.ts:139-140
spliceUnshift(newGrid, y) ==
    <<emptyRow>> \o SubSeq(newGrid, 1, y) \o SubSeq(newGrid, y + 2, Len(newGrid))

\* a clearance that takes the cleared lines last first
RECURSIVE updateGridAfterClearance_lastFirst(_, _)
updateGridAfterClearance_lastFirst(grid, clearedLines) ==
    IF clearedLines = << >> THEN grid
    ELSE updateGridAfterClearance_lastFirst(
             spliceUnshift(grid, clearedLines[Len(clearedLines)]),
             SubSeq(clearedLines, 1, Len(clearedLines) - 1))

\* updateGridAfterClearance, state.ts:136-143
RECURSIVE updateGridAfterClearance(_, _)
updateGridAfterClearance(grid, clearedLines) ==
    IF clearedLines = << >> THEN grid
    ELSE updateGridAfterClearance(spliceUnshift(grid, Head(clearedLines)),
                                  Tail(clearedLines))

\* a high score that follows the score instead of its maximum
scoreUpdates_noMax(s, clearedLineCount) ==
    LET newScore == s.score + clearedLineCount * 100
    IN  [newScore |-> newScore,
         newLevel |-> (newScore \div 1000) + 1,
         newHighScore |-> newScore]

\* scoreUpdates, state.ts:152-160
scoreUpdates(s, clearedLineCount) ==
    LET newScore == s.score + clearedLineCount * 100
    IN  [newScore |-> newScore,
         newLevel |-> (newScore \div 1000) + 1,
         newHighScore |-> IF newScore >= s.highScore THEN newScore ELSE s.highScore]

-----------------------------------------------------------------------------
(* The initial state and the Actions, src/src/state.ts:72-347              *)

\* initialState, state.ts:72-85, for the module-level RNG rng0 (state.ts:64)
initialState(rng0) ==
    [block     |-> randomBlock(rng0)[1],
     nextBlock |-> randomBlock(randomBlock(rng0)[2])[1],
     blockX    |-> STARTING_BLOCK_X,
     blockY    |-> 0,
     RNG       |-> randomBlock(randomBlock(rng0)[2])[2],
     grid      |-> [r \in 1..GRID_HEIGHT |-> emptyRow],
     score     |-> 0,
     level     |-> STARTING_LEVEL,
     highScore |-> 0,
     gameEnd   |-> FALSE]

\* a landing that burns the piece at the colliding candidate position
landing_burnsCandidate(s) ==
    LET newGrid == updateGrid(s.grid, s.block, s.blockX, s.blockY + 1)
    IN  IF isGameEnd(newGrid)
        THEN [s EXCEPT !.gameEnd = TRUE]
        ELSE LET clearedLines == linesCleared(newGrid)
                 updatedGrid == updateGridAfterClearance(newGrid, clearedLines)
                 su == scoreUpdates(s, Len(clearedLines))
             IN  [s EXCEPT !.block = s.nextBlock,
                           !.nextBlock = randomBlock(s.RNG)[1],
                           !.blockX = STARTING_BLOCK_X,
                           !.blockY = 0,
                           !.RNG = randomBlock(s.RNG)[2],
                           !.grid = updatedGrid,
                           !.score = su.newScore,
                           !.level = su.newLevel,
                           !.highScore = su.newHighScore]

\* a landing that draws the next block without advancing the RNG
landing_keepsRNG(s) ==
    LET newGrid == updateGrid(s.grid, s.block, s.blockX, s.blockY)
    IN  IF isGameEnd(newGrid)
        THEN [s EXCEPT !.gameEnd = TRUE]
        ELSE LET clearedLines == linesCleared(newGrid)
                 updatedGrid == updateGridAfterClearance(newGrid, clearedLines)
                 su == scoreUpdates(s, Len(clearedLines))
             IN  [s EXCEPT !.block = s.nextBlock,
                           !.nextBlock = randomBlock(s.RNG)[1],
                           !.blockX = STARTING_BLOCK_X,
                           !.blockY = 0,
                           !.grid = updatedGrid,
                           !.score = su.newScore,
                           !.level = su.newLevel,
                           !.highScore = su.newHighScore]

\* the landing branch of Move.apply, state.ts:189-213
landing(s) ==
    LET newGrid == updateGrid(s.grid, s.block, s.blockX, s.blockY)
    IN  IF isGameEnd(newGrid)
        THEN [s EXCEPT !.gameEnd = TRUE]
        ELSE LET clearedLines == linesCleared(newGrid)
                 updatedGrid == updateGridAfterClearance(newGrid, clearedLines)
                 su == scoreUpdates(s, Len(clearedLines))
             IN  [s EXCEPT !.block = s.nextBlock,
                           !.nextBlock = randomBlock(s.RNG)[1],
                           !.blockX = STARTING_BLOCK_X,
                           !.blockY = 0,
                           !.RNG = randomBlock(s.RNG)[2],
                           !.grid = updatedGrid,
                           !.score = su.newScore,
                           !.level = su.newLevel,
                           !.highScore = su.newHighScore]

\* a Move that treats every collision as a landing
Move_landsOnAnyCollision(s, direction, magnitude) ==
    LET m == moveBlock(s, direction, magnitude)
    IN  IF isCollision(s.grid, s.block, m.newBlockX, m.newBlockY)
        THEN landing(s)
        ELSE [s EXCEPT !.blockX = m.newBlockX, !.blockY = m.newBlockY]

\* a Move that commits a sideways step without testing it
Move_sidewaysUnchecked(s, direction, magnitude) ==
    LET m == moveBlock(s, direction, magnitude)
    IN  IF direction = "y" /\ isCollision(s.grid, s.block, m.newBlockX, m.newBlockY)
        THEN IF magnitude > 0
             THEN landing(s)
             ELSE s
        ELSE [s EXCEPT !.blockX = m.newBlockX, !.blockY = m.newBlockY]

\* Move.apply, state.ts:180-223
Move(s, direction, magnitude) ==
    LET m == moveBlock(s, direction, magnitude)
    IN  IF isCollision(s.grid, s.block, m.newBlockX, m.newBlockY)
        THEN IF direction = "y" /\ magnitude > 0
             THEN landing(s)
             ELSE s
        ELSE [s EXCEPT !.blockX = m.newBlockX, !.blockY = m.newBlockY]

\* a Restart that forgets the high score
Restart_resetsHighScore(s, rng0) ==
    [initialState(rng0) EXCEPT !.RNG = randomBlock(s.RNG)[2]]

\* a Restart that carries the RNG over without advancing it
Restart_keepsRNG(s, rng0) ==
    [initialState(rng0) EXCEPT !.RNG = s.RNG,
                               !.highScore = s.highScore]

\* a Restart that takes the larger of score and highScore as the high score
Restart_maxScore(s, rng0) ==
    [initialState(rng0) EXCEPT !.RNG = randomBlock(s.RNG)[2],
                               !.highScore = IF s.score > s.highScore
                                             THEN s.score ELSE s.highScore]

\* Restart.apply, state.ts:231-239
Restart(s, rng0) ==
    [initialState(rng0) EXCEPT !.RNG = randomBlock(s.RNG)[2],
                               !.highScore = s.highScore]

\* updateState, state.ts:248-263
updateState(s, rotatedBlock, deltaX, deltaY) ==
    [s EXCEPT !.block = [s.block EXCEPT !.shape = rotatedBlock],
              !.blockX = s.blockX + deltaX,
              !.blockY = s.blockY + deltaY]

\* tryRotate, state.ts:267-279
tryRotate(s, rotatedBlock, deltaX, deltaY) ==
    ~isCollision(s.grid, [s.block EXCEPT !.shape = rotatedBlock],
                 s.blockX + deltaX, s.blockY + deltaY)

\* the offsets of Rotate.apply, state.ts:309-315
offsets == << [x |-> 0, y |-> 0], [x |-> 1, y |-> 0], [x |-> -1, y |-> 0],
              [x |-> 0, y |-> 1], [x |-> 0, y |-> -1] >>

\* tryRotationOffsets, state.ts:286-295: offsets.find(...) || null, as the
\* sequence of the offsets that fit (its head is the one find returns)
tryRotationOffsets(s, rotatedBlock, offs) ==
    SelectSeq(offs, LAMBDA offset : tryRotate(s, rotatedBlock, offset.x, offset.y))

\* Rotate.apply, state.ts:306-323
Rotate(s) ==
    LET rotatedBlock == rotateMatrix(s.block.shape)
        valid == tryRotationOffsets(s, rotatedBlock, offsets)
    IN  IF valid # << >>
        THEN updateState(s, rotatedBlock, Head(valid).x, Head(valid).y)
        ELSE s

\* a search that looks no further than one row down
findNewY_oneRowDown(grid, block, blockX, blockY) == blockY + 1

\* Drop.findNewY, state.ts:336-346
RECURSIVE findNewY(_, _, _, _)
findNewY(grid, block, blockX, blockY) ==
    IF isCollision(grid, block, blockX, blockY + 1)
    THEN blockY
    ELSE findNewY(grid, block, blockX, blockY + 1)

\* a Drop that moves one row too far, and so lands the piece at once
Drop_oneTooFar(s) ==
    LET newY == findNewY(s.grid, s.block, s.blockX, s.blockY)
    IN  Move(s, "y", (newY - s.blockY) + 1)

\* Drop.apply, state.ts:331-334
Drop(s) ==
    LET newY == findNewY(s.grid, s.block, s.blockX, s.blockY)
    IN  Move(s, "y", newY - s.blockY)

-----------------------------------------------------------------------------
(* The driver, src/src/main.ts:39-89 and :234-239, and view.ts:12          *)

\* new RNG() with no seed, util.ts:15-23; ms is Date().getMilliseconds()
newRNG(ms) == [seed |-> hash(ms)]

\* the Action each stream of main.ts:52-60 and :88 emits
keyAction(key) ==
    CASE key = "KeyA"  -> [type |-> "Move", direction |-> "x", magnitude |-> -1]
      [] key = "KeyD"  -> [type |-> "Move", direction |-> "x", magnitude |-> 1]
      [] key = "KeyS"  -> [type |-> "Move", direction |-> "y", magnitude |-> 1]
      [] key = "tick"  -> [type |-> "Move", direction |-> "y", magnitude |-> 1]
      [] key = "KeyW"  -> [type |-> "Rotate"]
      [] key = "KeyR"  -> [type |-> "Restart"]
      [] key = "Space" -> [type |-> "Drop"]

\* action.apply(s), for the Action classes of state.ts
apply(a, s, rng0) ==
    CASE a.type = "Move"    -> Move(s, a.direction, a.magnitude)
      [] a.type = "Rotate"  -> Rotate(s)
      [] a.type = "Restart" -> Restart(s, rng0)
      [] a.type = "Drop"    -> Drop(s)

\* tick, view.ts:12 (the reducer of scan)
tick(s, a, rng0) == apply(a, s, rng0)

\* scan(tick, initialState) over a finite sequence of emissions, main.ts:235.
\* The fold is split in halves to keep the evaluation shallow; acc ranges over
\* a singleton and is compared with itself so that the accumulated State is a
\* plain value, computed once, before the second half is applied to it.
RECURSIVE scan(_, _, _)
scan(s, keys, rng0) ==
    IF keys = << >> THEN s
    ELSE IF Len(keys) = 1 THEN tick(s, keyAction(keys[1]), rng0)
    ELSE LET half == Len(keys) \div 2
         IN  CHOOSE r \in
                 { IF acc = acc
                   THEN scan(acc, SubSeq(keys, half + 1, Len(keys)), rng0)
                   ELSE acc :
                       acc \in { scan(s, SubSeq(keys, 1, half), rng0) } } : TRUE

\* the map of tick$, main.ts:76-82: the tick interval of the level of s
rateOf(s) ==
    IF s.level * TICK_RATE_DECREMENT_MS >= TICK_RATE_MS
    THEN MIN_TICK_RATE_MS
    ELSE TICK_RATE_MS - s.level * TICK_RATE_DECREMENT_MS

\* an operator that subscribes the new interval and keeps the running ones
switchMap_mergeMap(running, rate) == Append(running, rate)

\* switchMap((rate) => interval(rate)...), main.ts:88: the running inner
\* interval is unsubscribed, then interval(rate) is subscribed
switchMap(running, rate) == << rate >>

\* state$.next(s), main.ts:237, through the pipe of tick$, main.ts:75-89:
\* the timers that run once s has passed map and distinctUntilChanged
retime(lastRate, running, s) ==
    IF rateOf(s) = lastRate
    THEN running
    ELSE switchMap(running, rateOf(s))

-----------------------------------------------------------------------------
(* Bounds and starting positions.  Every starting position is the state    *)
(* scan yields from initialState for a clock reading and a recorded key    *)
(* sequence, so each one is a state the program reaches.                   *)

MaxSteps == 4
MaxMagnitude == 2     \* Move magnitudes -MaxMagnitude..MaxMagnitude are tried

\* A game from the clock reading 0 ms: ten single-row clears (score 1000)
play0 ==
    <<
       "KeyA", "KeyA", "KeyA", "Space", "KeyS", "KeyD", "Space", "KeyS", "KeyD", "KeyD",
       "KeyD", "KeyD", "Space", "KeyS", "Space", "KeyS", "KeyW", "KeyD", "KeyD", "KeyD",
       "Space", "KeyS", "KeyW", "KeyW", "KeyA", "Space", "KeyS", "KeyW", "KeyA", "KeyA",
       "KeyA", "KeyA", "Space", "KeyS", "Space", "KeyS", "KeyW", "KeyA", "KeyA", "KeyA",
       "Space", "KeyS", "KeyW", "KeyA", "KeyA", "KeyA", "KeyA", "Space", "KeyS", "KeyW",
       "KeyD", "Space", "KeyS", "KeyW", "KeyD", "KeyD", "Space", "KeyS", "KeyW", "KeyW",
       "KeyW", "KeyD", "KeyD", "KeyD", "KeyD", "KeyD", "Space", "KeyS", "KeyD", "KeyD",
       "KeyD", "KeyD", "Space", "KeyS", "KeyA", "KeyA", "Space", "KeyS", "Space", "KeyS",
       "Space", "KeyS", "KeyD", "KeyD", "KeyD", "Space", "KeyS", "KeyW", "KeyD", "KeyD",
       "KeyD", "KeyD", "Space", "KeyS", "KeyW", "KeyD", "Space", "KeyS", "Space", "KeyS",
       "KeyW", "KeyD", "Space", "KeyS", "KeyA", "KeyA", "KeyA", "Space", "KeyS", "KeyA",
       "KeyA", "Space", "KeyS", "KeyW", "KeyW", "KeyW", "KeyD", "KeyD", "KeyD", "KeyD",
       "KeyD", "Space", "KeyS", "KeyA", "KeyA", "KeyA", "Space", "KeyS", "KeyW", "KeyD",
       "KeyD", "KeyD", "KeyD", "Space", "KeyS", "KeyA", "KeyA", "Space", "KeyS", "Space",
       "KeyS", "KeyW", "KeyW", "KeyW", "KeyD", "KeyD", "Space", "KeyS" >>

\* A game from the clock reading 1 ms: it ends with a two-row clear
play1 ==
    <<
       "KeyA", "KeyA", "KeyA", "Space", "KeyS", "Space", "KeyS", "KeyA", "KeyA", "Space",
       "KeyS", "KeyD", "KeyD", "Space", "KeyS", "KeyD", "KeyD", "KeyD", "KeyD", "Space",
       "KeyS", "KeyA", "Space", "KeyS", "KeyW", "KeyD", "KeyD", "KeyD", "Space", "KeyS" >>

\* play0 continued: Restart, then pieces placed until a row is one piece short
again0 ==
    <<
       "KeyR", "KeyA", "KeyA", "KeyA", "Space", "KeyS", "KeyD", "Space", "KeyS", "KeyD",
       "KeyD", "KeyD", "KeyD", "Space", "KeyS", "Space", "KeyS", "KeyA", "KeyA", "KeyA",
       "Space", "KeyS", "KeyW", "KeyW", "KeyD", "KeyD", "KeyD", "KeyD" >>

\* A game from the clock reading 0 ms: its last piece lands under the spawn
\* position and leaves an overhang there (a cell of row 1 above empty cells)
overhang0 ==
    <<
       "KeyW", "KeyW", "KeyW", "Space", "KeyS", "KeyA", "KeyA", "Space", "KeyS", "KeyA",
       "KeyA", "Space", "KeyS", "KeyW", "KeyA", "Space", "KeyS", "KeyW", "KeyA", "KeyA",
       "Space", "KeyS", "KeyW", "KeyW", "KeyD", "Space", "KeyS", "KeyW", "KeyD", "KeyD",
       "Space", "KeyS", "KeyD", "KeyD", "KeyD", "Space", "KeyS", "KeyW", "KeyW", "KeyW",
       "KeyA", "Space", "KeyS", "KeyW", "KeyW", "KeyA", "KeyA", "Space", "KeyS", "KeyA",
       "KeyA", "Space", "KeyS", "KeyA", "KeyA", "Space", "KeyS" >>

\* A game from the clock reading 0 ms: its last piece completes rows 17 and
\* 19 at once, row 18 between them staying incomplete
split0 ==
    <<
       "Space", "KeyS", "KeyA", "KeyA", "KeyA", "Space", "KeyS", "KeyD", "KeyD", "KeyD",
       "KeyD", "Space", "KeyS", "KeyW", "KeyA", "KeyA", "KeyA", "KeyA", "Space", "KeyS",
       "KeyW", "KeyW", "KeyA", "Space", "KeyS", "KeyW", "KeyW", "KeyA", "KeyA", "Space",
       "KeyS", "KeyD", "KeyD", "Space", "KeyS", "KeyD", "Space", "KeyS", "KeyW", "KeyD",
       "KeyD", "Space", "KeyS", "KeyW", "KeyW", "KeyW", "KeyD", "KeyD", "KeyD", "KeyD",
       "KeyD", "Space", "KeyS" >>

\* n times Space then KeyS: every piece dropped where it spawns
tower(n) == [i \in 1..(2 * n) |-> IF i % 2 = 1 THEN "Space" ELSE "KeyS"]

starts == <<
    [ms |-> 0, keys |-> << >>],                    \* fresh games
    [ms |-> 1, keys |-> << >>],
    [ms |-> 4, keys |-> << >>],
    [ms |-> 0, keys |-> SubSeq(play0, 1, 78)],     \* score 300, a row one piece short
    [ms |-> 0, keys |-> SubSeq(play0, 1, 146)],    \* score 900, piece above the gap
    [ms |-> 1, keys |-> SubSeq(play1, 1, 28)],     \* two rows one piece short
    [ms |-> 0, keys |-> play0 \o again0],          \* score 0 below highScore 1000
    [ms |-> 0, keys |-> tower(11)],                \* stack up to row 1
    [ms |-> 1, keys |-> tower(10)],                \* stack up to row 2
    [ms |-> 588, keys |-> << >>],                  \* two clock readings whose
    [ms |-> 836, keys |-> << >>],                  \* streams meet after one step
    [ms |-> 0, keys |-> SubSeq(overhang0, 1, 55)], \* a landing that leaves an overhang
    [ms |-> 0, keys |-> SubSeq(split0, 1, 51)],    \* rows 17 and 19 one piece short
    [ms |-> 0, keys |-> SubSeq(play0, 1, 92)] >>   \* score 500, a row one piece short

\* the clock readings (Date().getMilliseconds()) of the starting positions
Millis == { starts[i].ms : i \in 1..Len(starts) }

-----------------------------------------------------------------------------
(* The state machine                                                       *)

Init ==
    \E i \in 1..Len(starts) :
        /\ initial_RNG = newRNG(starts[i].ms)
        /\ state = scan(initialState(initial_RNG), starts[i].keys, initial_RNG)
        /\ prev = state
        /\ action = "init"
        /\ steps = 0
        /\ tickRate = rateOf(state)
        /\ timers = << rateOf(state) >>

\* one emission of merge(...) folded by scan and handed to the subscriber,
\* which passes the new State to state$ and so to tick$, main.ts:234-239
emit(key) ==
    /\ steps < MaxSteps
    /\ state' = tick(state, keyAction(key), initial_RNG)
    /\ prev' = state
    /\ action' = key
    /\ steps' = steps + 1
    /\ tickRate' = rateOf(state')
    /\ timers' = retime(tickRate, timers, state')
    /\ UNCHANGED initial_RNG

\* tick$, main.ts:75-89: one of the running interval timers fires
tick_ == \E i \in 1..Len(timers) : emit("tick")
left_ == emit("KeyA")        \* left$, main.ts:52
right_ == emit("KeyD")       \* right$, main.ts:53
down_ == emit("KeyS")        \* down$, main.ts:54
rotate_ == emit("KeyW")      \* rotate$, main.ts:55-58
restart_ == emit("KeyR")     \* restart$, main.ts:59
drop_ == emit("Space")       \* drop$, main.ts:60

Next ==
    \/ tick_
    \/ left_
    \/ right_
    \/ down_
    \/ rotate_
    \/ restart_
    \/ drop_

Spec == Init /\ [][Next]_vars

-----------------------------------------------------------------------------
(* The stream on its own: an RNG built from an explicit seed or from the   *)
(* clock (util.ts:15-23) and advanced by next().  In this specification    *)
(* the variable state holds the RNG instance, prev the one before the last *)
(* call of next(); no game runs, so no timer does.                         *)

MaxDraws == 3        \* calls of next() on one stream
MaxClock == 24       \* clock readings 0..MaxClock

\* the lowest and the highest seed of each selector bucket of scale, and the
\* largest seed below RNG.m
EdgeSeeds ==
    { k * 306783378 + d : k \in 0..6, d \in {0, 1, 2} }
        \cup { MaxSeed - 1, MaxSeed }

RNGInit ==
    /\ \/ \E seed \in EdgeSeeds : initial_RNG = [seed |-> seed]
       \/ \E ms \in 0..MaxClock : initial_RNG = newRNG(ms)
    /\ state = initial_RNG
    /\ prev = state
    /\ action = "new"
    /\ steps = 0
    /\ tickRate = 0
    /\ timers = << >>

\* rng.next(), util.ts:37-40
next_ ==
    /\ steps < MaxDraws
    /\ state' = next(state)
    /\ prev' = state
    /\ action' = "next"
    /\ steps' = steps + 1
    /\ UNCHANGED <<initial_RNG, tickRate, timers>>

RNGNext == next_

RNGSpec == RNGInit /\ [][RNGNext]_vars

-----------------------------------------------------------------------------
(* The statements of the specification, in its own terms: a piece is the   *)
(* set of grid cells <<row, column>> its filled shape cells cover.         *)

Cells(b, x, y) ==
    { <<y + (p[1] - 1), x + (p[2] - 1)>> :
        p \in { q \in (1..Len(b.shape)) \X (1..Len(b.shape[1])) :
                    b.shape[q[1]][q[2]] = 1 } }

OnGrid(cell) ==
    cell[1] \in 0..(GRID_HEIGHT - 1) /\ cell[2] \in 0..(GRID_WIDTH - 1)

Collides(g, b, x, y) ==
    \E cell \in Cells(b, x, y) :
        ~OnGrid(cell) \/ g[cell[1] + 1][cell[2] + 1] # null

Burn(g, b, x, y) ==
    [r \in 1..GRID_HEIGHT |->
        [c \in 1..GRID_WIDTH |->
            IF <<r - 1, c - 1>> \in Cells(b, x, y) THEN b.color ELSE g[r][c]]]

TopRowOccupied(g) == \E c \in 1..GRID_WIDTH : g[1][c] # null

IsFull(row) == \A c \in 1..Len(row) : row[c] # null

FullRows(g) == { r \in 1..Len(g) : IsFull(g[r]) }

ClearRows(g) ==
    LET kept == SelectSeq(g, LAMBDA row : ~IsFull(row))
    IN  [i \in 1..(Len(g) - Len(kept)) |-> [c \in 1..GRID_WIDTH |-> null]] \o kept

EmptyGrid == [r \in 1..GRID_HEIGHT |-> [c \in 1..GRID_WIDTH |-> null]]

Max(a, b) == IF a >= b THEN a ELSE b

\* the last Action was a downward Move(y, 1) that collided: a landing
Landed ==
    /\ action \in {"KeyS", "tick"}
    /\ Collides(prev.grid, prev.block, prev.blockX, prev.blockY + 1)

\* the grid with the piece of prev burned where it stood
BurnedPrev == Burn(prev.grid, prev.block, prev.blockX, prev.blockY)

LandedOn == Landed /\ ~TopRowOccupied(BurnedPrev)     \* the game goes on
LandedOut == Landed /\ TopRowOccupied(BurnedPrev)     \* the game ends

\* C1: once gameEnd is true, no Move, Rotate or Drop (timer ticks included)
\* changes grid, score or level; only Restart does.
C1_FrozenAfterGameEnd ==
    (prev.gameEnd /\ action \in {"KeyA", "KeyD", "KeyS", "tick", "KeyW", "Space"})
        => /\ state.grid = prev.grid
           /\ state.score = prev.score
           /\ state.level = prev.level

\* C2: a landing whose burned grid has a cell in row 0 yields gameEnd = TRUE
\* and the burned grid (no row cleared); every other field is unchanged.
C2_GameEndKeepsBurnedGrid ==
    LandedOut => state = [prev EXCEPT !.gameEnd = TRUE, !.grid = BurnedPrev]

\* C3: a landing whose burned grid has row 0 empty burns the piece at its last
\* valid position, clears the full rows of that grid, makes the former
\* nextBlock the active block and puts it at (3, 0).
C3_LandingBurnsAtLastValid ==
    LandedOn => /\ state.grid = ClearRows(BurnedPrev)
                /\ state.block = prev.nextBlock
                /\ state.blockX = 3
                /\ state.blockY = 0

C3_Witness ==
    /\ LandedOn
    /\ prev.blockY > 0
    /\ FullRows(BurnedPrev) # {}
    /\ state.grid # BurnedPrev

\* C4: a landing that does not end the game adds 100 per full row of the
\* burned grid to score, and sets level = floor(score / 1000) + 1 and
\* highScore = max(score, old highScore); no other Action than such a
\* landing or Restart changes score.
C4_ScoreOnLanding ==
    /\ LandedOn =>
          /\ state.score = prev.score + 100 * Cardinality(FullRows(BurnedPrev))
          /\ state.level = (state.score \div 1000) + 1
          /\ state.highScore = Max(state.score, prev.highScore)
    /\ (~LandedOn /\ action # "KeyR") => state.score = prev.score

C4_Witness ==
    /\ LandedOn
    /\ FullRows(BurnedPrev) # {}
    /\ state.level > prev.level

\* C5: in every reachable state level = floor(score / 1000) + 1 and
\* highScore >= score, and no Action (Restart included) lowers highScore.
C5_LevelAndHighScore ==
    /\ state.level = (state.score \div 1000) + 1
    /\ state.highScore >= state.score
    /\ state.highScore >= prev.highScore

C5_Witness ==
    /\ action = "KeyR"
    /\ prev.score > 0
    /\ state.highScore = prev.score
    /\ state.score = 0

\* C6: Restart is accepted in every state, gameEnd = TRUE included, and
\* yields gameEnd = FALSE, score 0, level 1, an empty 10x20 grid, position
\* (3, 0), the highScore of the state it is applied to and its RNG advanced
\* by one step.
RestartedFrom(r, s) ==
    /\ r.gameEnd = FALSE
    /\ r.score = 0
    /\ r.level = 1
    /\ r.grid = EmptyGrid
    /\ r.blockX = 3
    /\ r.blockY = 0
    /\ r.highScore = s.highScore
    /\ r.RNG = next(s.RNG)

C6_RestartResets ==
    /\ RestartedFrom(Restart(state, initial_RNG), state)
    /\ action = "KeyR" => RestartedFrom(state, prev)

C6_Witness ==
    /\ action = "KeyR"
    /\ prev.gameEnd
    /\ ~state.gameEnd

\* C7: the state Restart produces (block and nextBlock included) is fixed by
\* the RNG and highScore of the state it is applied to, whatever the clock
\* read when the game was loaded: another run, loaded at clock reading ms and
\* in its first state t, restarts into the same state as this run whenever
\* t and the state of this run agree on RNG and highScore.
C7_RestartIgnoresClock ==
    \A ms \in Millis :
        LET rng0 == newRNG(ms)
            t == initialState(rng0)
        IN  (t.RNG = state.RNG /\ t.highScore = state.highScore)
                => Restart(t, rng0) = Restart(state, initial_RNG)

\* C8: a Move whose candidate position does not collide changes the position
\* only; a Move that collides horizontally, or with a non-positive vertical
\* magnitude, returns the state unchanged.
C8_MoveFrame ==
    \A d \in {"x", "y"} : \A mag \in (-MaxMagnitude)..MaxMagnitude :
        LET cx == state.blockX + (IF d = "x" THEN mag ELSE 0)
            cy == state.blockY + (IF d = "y" THEN mag ELSE 0)
            hit == Collides(state.grid, state.block, cx, cy)
        IN  /\ ~hit => Move(state, d, mag) = [state EXCEPT !.blockX = cx, !.blockY = cy]
            /\ (hit /\ (d = "x" \/ mag <= 0)) => Move(state, d, mag) = state

C8_Witness ==
    /\ action = "KeyD"
    /\ Collides(prev.grid, prev.block, prev.blockX + 1, prev.blockY)
    /\ prev.blockX + 1 < GRID_WIDTH - 1
    /\ state = prev

\* C9: Rotate accepts the first of the offsets (0,0), (1,0), (-1,0), (0,1),
\* (0,-1) at which the clockwise-rotated shape does not collide: the shape is
\* rotated, the color kept, the position shifted by that offset and nothing
\* else changes; if none fits the state is unchanged.
RotateCW(shape) ==
    [i \in 1..Len(shape) |-> [j \in 1..Len(shape) |-> shape[(Len(shape) + 1) - j][i]]]

Kicks == << <<0, 0>>, <<1, 0>>, <<-1, 0>>, <<0, 1>>, <<0, -1>> >>

Turned == [shape |-> RotateCW(prev.block.shape), color |-> prev.block.color]

Fitting ==
    { k \in 1..Len(Kicks) :
        ~Collides(prev.grid, Turned, prev.blockX + Kicks[k][1], prev.blockY + Kicks[k][2]) }

FirstFit == CHOOSE k \in Fitting : \A other \in Fitting : k <= other

C9_RotateFirstFit ==
    action = "KeyW" =>
        IF Fitting = {}
        THEN state = prev
        ELSE state = [prev EXCEPT !.block = Turned,
                                  !.blockX = prev.blockX + Kicks[FirstFit][1],
                                  !.blockY = prev.blockY + Kicks[FirstFit][2]]

C9_Witness ==
    /\ action = "KeyW"
    /\ Fitting # {}
    /\ FirstFit > 1
    /\ state.block.shape # prev.block.shape

\* C10: Drop keeps blockX and puts blockY on the row reached by walking down
\* from blockY while one more step down does not collide, so that one more
\* step down collides afterwards; the result is that of Move(y, row - blockY).
LandY(s) ==
    CHOOSE y \in s.blockY..GRID_HEIGHT :
        /\ Collides(s.grid, s.block, s.blockX, y + 1)
        /\ \A z \in s.blockY..(y - 1) : ~Collides(s.grid, s.block, s.blockX, z + 1)

C10_DropWalksDown ==
    action = "Space" =>
        /\ state = [prev EXCEPT !.blockY = LandY(prev)]
        /\ Collides(state.grid, state.block, state.blockX, state.blockY + 1)
        /\ state = Move(prev, "y", LandY(prev) - prev.blockY)

C10_Witness ==
    /\ action = "Space"
    /\ state.blockY > prev.blockY + 1
    /\ state.blockX = prev.blockX

\* the active piece of s covers an occupied cell of the grid of s
Overlaps(s) ==
    \E cell \in Cells(s.block, s.blockX, s.blockY) :
        OnGrid(cell) /\ s.grid[cell[1] + 1][cell[2] + 1] # null

\* C11: if, right after a landing, the piece spawned at (3, 0) overlaps an
\* occupied cell, then the next Move(y, 1) applied to that state yields
\* gameEnd = TRUE.
C11_SpawnCollisionEndsGame ==
    (LandedOn /\ state.blockX = 3 /\ state.blockY = 0 /\ Overlaps(state))
        => Move(state, "y", 1).gameEnd

\* C12: every seed in [0, RNG.m) the stream holds gives a value in 0..6,
\* which indexes one of the 7 entries of the catalog.
C12_ValueIndexesCatalog ==
    state.seed \in 0..MaxSeed
        => /\ currentValue(state) \in 0..6
           /\ (currentValue(state) + 1) \in DOMAIN shapes

\* C13: a landing that does not end the game takes exactly one step of the
\* stream: the new nextBlock is the catalog entry at the value of the RNG
\* before the landing and the new RNG is that RNG advanced once; a Move that
\* does not land, a landing that ends the game, Rotate and Drop leave RNG and
\* nextBlock unchanged.
C13_LandingDrawsOnce ==
    /\ LandedOn =>
          /\ state.nextBlock = shapes[currentValue(prev.RNG) + 1]
          /\ state.RNG = next(prev.RNG)
    /\ (~LandedOn /\ action \in {"KeyA", "KeyD", "KeyS", "tick", "KeyW", "Space"})
          => /\ state.RNG = prev.RNG
             /\ state.nextBlock = prev.nextBlock

C13_Witness ==
    /\ LandedOn
    /\ state.RNG # prev.RNG
    /\ state.nextBlock # prev.nextBlock
    /\ state.block = prev.nextBlock

\* C14: for a burned grid and any ascending list of indices of its full rows
\* (one or several, adjacent or not), the clearance removes exactly those
\* rows, puts as many empty rows on top, keeps the other rows in their order
\* and keeps 20 rows of 10 cells; the grid of every reachable state has 20
\* rows of 10 cells.
RECURSIVE Ascending(_)
Ascending(S) ==
    IF S = {} THEN << >>
    ELSE LET lo == CHOOSE x \in S : \A y \in S : x <= y
         IN  <<lo>> \o Ascending(S \ {lo})

\* the 1-based indices of the rows of g that stay when the rows S (0-based) go
KeptRows(g, S) ==
    SelectSeq([i \in 1..Len(g) |-> i], LAMBDA i : (i - 1) \notin S)

HasShape(g) ==
    Len(g) = 20 /\ \A r \in 1..Len(g) : Len(g[r]) = 10

ClearedOf(g, S, out) ==
    LET n == Cardinality(S)
        kept == KeptRows(g, S)
    IN  /\ HasShape(out)
        /\ \A i \in 1..n : \A c \in 1..10 : out[i][c] = null
        /\ \A k \in 1..Len(kept) : out[n + k] = g[kept[k]]

FullRowIndices(g) == { r - 1 : r \in FullRows(g) }

C14_ClearanceRemovesFullRows ==
    /\ HasShape(state.grid)
    /\ Landed =>
          \A g \in { BurnedPrev } :
              /\ \A S \in SUBSET FullRowIndices(g) :
                     ClearedOf(g, S, updateGridAfterClearance(g, Ascending(S)))
              /\ ~TopRowOccupied(g) =>
                     ClearedOf(g, FullRowIndices(g), state.grid)

\* a landing that clears two rows with a row that stays between them
C14_Witness ==
    /\ LandedOn
    /\ \E a \in FullRows(BurnedPrev) : \E b \in FullRows(BurnedPrev) :
           /\ a + 1 < b
           /\ (a + 1) \notin FullRows(BurnedPrev)
    /\ state.score = prev.score + 200

\* C15 as stated: in every reachable state 0 <= blockX < 10 and
\* 0 <= blockY < 20.
C15_OffsetOnGrid ==
    /\ state.blockX \in 0..(GRID_WIDTH - 1)
    /\ state.blockY \in 0..(GRID_HEIGHT - 1)

\* C15 as amended: in every reachable state every filled cell of the active
\* block is on the grid; blockX and blockY are the offset of the shape matrix,
\* whose empty leading columns and rows may stand off the grid, so that
\* -3 <= blockX < 10 and -3 <= blockY < 20.
C15_CellsOnGrid ==
    /\ Cells(state.block, state.blockX, state.blockY) # {}
    /\ \A cell \in Cells(state.block, state.blockX, state.blockY) : OnGrid(cell)
    /\ state.blockX \in (-3)..(GRID_WIDTH - 1)
    /\ state.blockY \in (-3)..(GRID_HEIGHT - 1)

C15_Witness ==
    /\ action = "KeyA"
    /\ state.blockX = prev.blockX - 1
    /\ state.blockX < 0
    /\ \A cell \in Cells(state.block, state.blockX, state.blockY) : OnGrid(cell)

\* C16 as stated: Restart applied to a state with score 500 and highScore 300
\* yields score 0, highScore 500, gameEnd = FALSE and the RNG advanced once.
\* No reachable state has highScore < score, so Restart.apply is given the
\* state of this run with score and highScore set to those of the scenario.
ScenarioD == [state EXCEPT !.score = 500, !.level = 1, !.highScore = 300]

C16_RestartTakesMaxScore ==
    LET r == Restart(ScenarioD, initial_RNG)
    IN  /\ r.score = 0
        /\ r.highScore = 500
        /\ r.gameEnd = FALSE
        /\ r.RNG = next(ScenarioD.RNG)

\* C16 as amended: Restart yields score 0, gameEnd = FALSE, the RNG advanced
\* once and the highScore of the state it is applied to, whatever its score
\* (300 from score 500 and highScore 300); in every reachable state that
\* highScore is the maximum of score and highScore, as from score 500 and
\* highScore 500.
ScorePairs == { <<500, 300>>, <<500, 500>> }   \* <<score, highScore>>

C16_RestartKeepsHighScore ==
    /\ \A p \in ScorePairs :
           \A r \in { Restart([state EXCEPT !.score = p[1], !.level = 1,
                                            !.highScore = p[2]], initial_RNG) } :
               /\ r.score = 0
               /\ r.highScore = p[2]
               /\ r.gameEnd = FALSE
               /\ r.RNG = next(state.RNG)
    /\ action = "KeyR" =>
           /\ state.score = 0
           /\ state.highScore = prev.highScore
           /\ state.highScore = Max(prev.score, prev.highScore)
           /\ state.gameEnd = FALSE
           /\ state.RNG = next(prev.RNG)

C16_Witness ==
    /\ action = "KeyR"
    /\ prev.score = 500
    /\ prev.highScore = 500
    /\ state.score = 0
    /\ state.highScore = 500

\* C17: for each of the 7 catalog shapes the clockwise rotation
\* new[i][j] = old[N-1-j][i], applied four times, gives the shape back, so
\* four Rotate actions that each succeed at offset (0,0) restore block.shape.
Rotate4(shape) == rotateMatrix(rotateMatrix(rotateMatrix(rotateMatrix(shape))))

\* Rotate applied to s turns the block where it stands
TurnsInPlace(s, r) ==
    /\ ~Collides(s.grid, [shape |-> RotateCW(s.block.shape), color |-> s.block.color],
                 s.blockX, s.blockY)
    /\ r.blockX = s.blockX
    /\ r.blockY = s.blockY

CatalogTurnsBack ==
    \A i \in 1..Len(shapes) :
        /\ rotateMatrix(shapes[i].shape) = RotateCW(shapes[i].shape)
        /\ Rotate4(shapes[i].shape) = shapes[i].shape

C17_FourRotationsRestore ==
    /\ CatalogTurnsBack
    /\ \A r1 \in { Rotate(state) } : \A r2 \in { Rotate(r1) } :
       \A r3 \in { Rotate(r2) } : \A r4 \in { Rotate(r3) } :
           (/\ TurnsInPlace(state, r1) /\ TurnsInPlace(r1, r2)
            /\ TurnsInPlace(r2, r3) /\ TurnsInPlace(r3, r4))
               => r4.block.shape = state.block.shape

\* the block is back in its catalog orientation by a Rotate in place that
\* changed its shape: the fourth (or eighth, ...) rotation since it spawned
C17_Witness ==
    /\ action = "KeyW"
    /\ TurnsInPlace(prev, state)
    /\ state.block.shape # prev.block.shape
    /\ \E i \in 1..Len(shapes) : state.block = shapes[i]
    /\ steps >= 4

\* C18: Drop terminates in every reachable state: the block has a filled
\* cell, a position with a filled cell at row 20 or below collides, and so
\* the search of findNewY finds a collision one step ahead after at most
\* GRID_HEIGHT steps down.
C18_DropSearchBounded ==
    /\ Cells(state.block, state.blockX, state.blockY) # {}
    /\ isCollision(state.grid, state.block, state.blockX, GRID_HEIGHT)
    /\ (findNewY(state.grid, state.block, state.blockX, state.blockY)
            - state.blockY) \in 0..GRID_HEIGHT
    /\ action = "Space" => (state.blockY - prev.blockY) \in 0..GRID_HEIGHT

\* a Drop whose search went down 18 rows or more
C18_Witness ==
    /\ action = "Space"
    /\ state.blockY - prev.blockY >= 18
    /\ Collides(state.grid, state.block, state.blockX, state.blockY + 1)

C20_ActiveBlockNeverCollides ==
    ~state.gameEnd
        => ~Collides(state.grid, state.block, state.blockX, state.blockY)

\* C20 as amended: the active block overlaps an occupied cell only at (3, 0),
\* where a landing has just spawned it or where it has stood, overlapping and
\* unmoved, since; Move, Rotate and Drop never commit an overlapping position.
C20_OverlapOnlyWhereSpawned ==
    Overlaps(state) =>
        /\ state.blockX = 3
        /\ state.blockY = 0
        /\ \/ LandedOn
           \/ /\ Overlaps(prev)
              /\ state.block = prev.block
              /\ state.blockX = prev.blockX
              /\ state.blockY = prev.blockY
              /\ state.grid = prev.grid

\* a landing spawned the next block onto an occupied cell and the game goes on
C20_Witness ==
    /\ LandedOn
    /\ Overlaps(state)
    /\ ~state.gameEnd
    /\ state.blockX = 3
    /\ state.blockY = 0

\* C21: in every reachable state the active block has four filled cells and
\* each of them, translated by (blockX, blockY), lies inside the grid
\* [0,10) x [0,20), also when blockX or blockY is negative because the leading
\* columns or rows of the rotated shape are empty.
C21_FilledCellsInsideGrid ==
    LET cells == Cells(state.block, state.blockX, state.blockY)
    IN  /\ Cardinality(cells) = 4
        /\ \A cell \in cells :
              /\ 0 <= cell[1] /\ cell[1] < GRID_HEIGHT
              /\ 0 <= cell[2] /\ cell[2] < GRID_WIDTH

\* a rotation has put the shape matrix at a negative offset
C21_Witness ==
    /\ action = "KeyW"
    /\ state.block # prev.block
    /\ state.blockX < 0
    /\ prev.blockX >= 0

\* the fields of a state other than blockY
Frame(s) ==
    << s.block, s.nextBlock, s.blockX, s.RNG, s.grid, s.score, s.level,
       s.highScore, s.gameEnd >>

\* one row down collides: the piece of s is resting
Resting(s) == Collides(s.grid, s.block, s.blockX, s.blockY + 1)

\* C22: Drop changes no field other than blockY (no burn, no cleared row, no
\* change of score, level or highScore, no swap of block and nextBlock, no RNG
\* step, no gameEnd) and never moves the piece up; a Drop of a resting piece
\* returns a state equal to its input.  Stated of the Drop just taken and of
\* the Drop that could be taken next.
C22_DropChangesOnlyBlockY ==
    /\ action = "Space" =>
          /\ Frame(state) = Frame(prev)
          /\ state.blockY >= prev.blockY
          /\ Resting(prev) => state = prev
    /\ \A d \in { Drop(state) } :
          /\ Frame(d) = Frame(state)
          /\ d.blockY >= state.blockY
          /\ Resting(state) => d = state

\* a Drop of a piece that rests on the stack, away from where it spawned
C22_Witness ==
    /\ action = "Space"
    /\ Resting(prev)
    /\ prev.blockY > 0
    /\ state = prev

Occupied(g) ==
    { p \in (1..GRID_HEIGHT) \X (1..GRID_WIDTH) : g[p[1]][p[2]] # null }

\* the row a kept row r of the burned grid stands in after the clearance
RowAfter(r) == r + Cardinality({ f \in FullRows(BurnedPrev) : f > r })

\* C24: a burn never overwrites an occupied cell: the piece of a landing that
\* does not end the game covers no occupied cell, the new grid has as many
\* occupied cells as the old one plus 4 minus 10 for each cleared row, and
\* every cell that was occupied outside the cleared rows keeps its color (in
\* the row the clearance moves it to).
C24_BurnOverwritesNothing ==
    LandedOn =>
        /\ ~Overlaps(prev)
        /\ Cardinality(Occupied(state.grid))
              = (Cardinality(Occupied(prev.grid)) + 4)
                    - (10 * Cardinality(FullRows(BurnedPrev)))
        /\ \A p \in Occupied(prev.grid) :
              p[1] \notin FullRows(BurnedPrev)
                  => state.grid[RowAfter(p[1])][p[2]] = prev.grid[p[1]][p[2]]

\* a landing that cleared a row and moved occupied cells down
C24_Witness ==
    /\ LandedOn
    /\ FullRows(BurnedPrev) # {}
    /\ \E p \in Occupied(prev.grid) :
          /\ p[1] \notin FullRows(BurnedPrev)
          /\ RowAfter(p[1]) > p[1]

====
